---- MODULE Spec2Model ----
(***************************************************************************)
(* Model of the firmware extractor plugin (src/src/lib.rs): the two        *)
(* registered address commands (GC, SDMA), their validity predicate        *)
(* `valid` and their `action`, over a host binary view.                    *)
(*                                                                         *)
(* Scaling.  A byte holds BitsPerByte bits instead of 8, so that a u64     *)
(* (8 bytes) and a u32 (4 bytes) fit TLC's integers while keeping the      *)
(* widths, the byte orders, the zero extension and the wrap-around of the  *)
(* source.  Addresses are u64: 0 .. AddrSpace-1.                           *)
(***************************************************************************)
EXTENDS Integers, Sequences, FiniteSets, TLC

\* ------------------------------------------------------------------ scale
BitsPerByte == 1
ByteBase == 2 ^ BitsPerByte
U32Bytes == 4
U64Bytes == 8
AddrSpace == ByteBase ^ U64Bytes

\* --------------------------------------------------------- option values
\* The element of a singleton set.  An intermediate result e is named by
\* `x \in {e}`, which evaluates it once, where the source binds it by `let`.
The(S) == CHOOSE x \in S : TRUE

None == [tag |-> "None"]
Some(v) == [tag |-> "Some", val |-> v]
Panic == [tag |-> "Panic"]

\* --------------------------------------------------------- FirmwareType
FirmwareType == {"Gc", "Sdma"}

size_field_off(ty) == IF ty = "Gc" THEN 12 ELSE 8

off_field_off(ty) == IF ty = "Gc" THEN 32 ELSE 16

\* ------------------------------------------------------- host binary view
\* A view is a record
\*   endianness   : "LittleEndian" | "BigEndian"
\*   address_size : 4 | 8
\*   segs         : set of <<lo, hi>>, the mapped address intervals
\*   hdr          : [ty, base, off, size], the firmware header the image holds
\*   syms         : set of [name, address, extent], the symbol table

\* view.offset_valid(a): the address is backed by the image.
offset_valid(view, a) == \E s \in view.segs : s[1] <= a /\ a <= s[2]

\* The inverse of from_le_bytes / from_be_bytes: byte i (0-based, in memory
\* order) of value v stored in n bytes.
EncodedByte(endianness, v, n, i) ==
    LET k == IF endianness = "LittleEndian" THEN i ELSE n - 1 - i
    IN  (v \div (ByteBase ^ k)) % ByteBase

\* Filler content of the image away from the header fields.
Pattern(a) == (a + (a \div 3)) % ByteBase

\* The image's byte at address a.
ByteAt(view, a) ==
    LET h  == view.hdr
        oa == h.base + off_field_off(h.ty)
        sa == h.base + size_field_off(h.ty)
    IN  IF a >= oa /\ a < oa + view.address_size
        THEN EncodedByte(view.endianness, h.off, view.address_size, a - oa)
        ELSE IF a >= sa /\ a < sa + U32Bytes
        THEN EncodedByte(view.endianness, h.size, U32Bytes, a - sa)
        ELSE Pattern(a)

\* view.read_vec(offset, len): the bytes read, cut at the first address the
\* image does not back (the result is truncated to what was read).
ReadLen(view, offset, len) ==
    LET unread == {k \in 0 .. (len - 1) :
                     offset + k >= AddrSpace \/ ~offset_valid(view, offset + k)}
    IN  IF unread = {} THEN len
        ELSE CHOOSE k \in unread : \A j \in unread : k <= j

read_vec(view, offset, len) ==
    [i \in 1 .. ReadLen(view, offset, len) |-> ByteAt(view, offset + i - 1)]

\* view.symbol_by_address(a)
symbol_by_address(view, a) ==
    LET hit == {s \in view.syms : s.address <= a /\ a < s.address + s.extent}
    IN  IF hit = {} THEN None ELSE Some(CHOOSE s \in hit : TRUE)

\* ------------------------------------------------------ integer decoding
\* u{32,64}::from_le_bytes: byte i (0-based) weighs ByteBase^i.
from_le_bytes(data) ==
    LET acc[i \in 0 .. Len(data)] ==
            IF i = 0 THEN 0 ELSE acc[i - 1] + data[i] * ByteBase ^ (i - 1)
    IN  acc[Len(data)]

Reverse(s) == [i \in 1 .. Len(s) |-> s[Len(s) + 1 - i]]

\* u{32,64}::from_be_bytes
from_be_bytes(data) == from_le_bytes(Reverse(data))

\* data.as_slice().try_into().ok()? into [u8; n], then from_{le,be}_bytes
DecodeArray(endianness, data, n) ==
    IF Len(data) # n THEN None
    ELSE IF endianness = "LittleEndian" THEN Some(from_le_bytes(data))
    ELSE Some(from_be_bytes(data))

\* u64 `+`: wraps without overflow checks, panics with them.
AddU64(checks, a, b) ==
    IF a + b < AddrSpace THEN Some(a + b)
    ELSE IF checks THEN Panic
    ELSE Some((a + b) % AddrSpace)

\* ------------------------------------------------------ ExtractorCommand
\* read_fw_size(&self, view, offset) -> Option<u32>
read_fw_size(checks, view, ty, offset) ==
    The({ IF a.tag = "Panic" THEN Panic
          ELSE The({ DecodeArray(view.endianness, data, U32Bytes) :
                     data \in {read_vec(view, a.val, U32Bytes)} }) :
          a \in {AddU64(checks, offset, size_field_off(ty))} })

\* read_fw_off(&self, view, offset) -> Option<u64>: address_size bytes are
\* read, and converted into an array of 8.
read_fw_off(checks, view, ty, offset) ==
    The({ IF a.tag = "Panic" THEN Panic
          ELSE The({ DecodeArray(view.endianness, data, U64Bytes) :
                     data \in {read_vec(view, a.val, view.address_size)} }) :
          a \in {AddU64(checks, offset, off_field_off(ty))} })

\* read_fw_info(&self, view, offset) -> Option<(u64, u32)>
read_fw_info(checks, view, ty, offset) ==
    The({ IF o.tag # "Some" THEN o
          ELSE The({ IF z.tag # "Some" THEN z
                     ELSE Some([fw_off |-> o.val, fw_size |-> z.val]) :
                     z \in {read_fw_size(checks, view, ty, offset)} }) :
          o \in {read_fw_off(checks, view, ty, offset)} })

\* sym.full_name().to_string_lossy(): a unit that is no valid UTF-8 becomes
\* U+FFFD.
to_string_lossy(units) ==
    [i \in 1 .. Len(units) |-> IF units[i] = "xFF" THEN "uFFFD" ELSE units[i]]

\* str::strip_prefix('_')
strip_prefix(s) ==
    IF s # <<>> /\ Head(s) = "_" THEN Some(Tail(s)) ELSE None

\* Faulty variant, for comparison: every leading "_" is removed (trim_start_matches).
RECURSIVE TrimAllUnderscores(_)
TrimAllUnderscores(s) ==
    IF s # <<>> /\ Head(s) = "_" THEN TrimAllUnderscores(Tail(s)) ELSE s

sym_to_fw_name_trim_all(sym) == TrimAllUnderscores(to_string_lossy(sym.name))

\* sym_to_fw_name(sym) -> String
sym_to_fw_name(sym) ==
    LET full_name == to_string_lossy(sym.name)
        stripped  == strip_prefix(full_name)
    IN  IF stripped.tag = "None" THEN full_name ELSE stripped.val

\* fw_info_addr(view, offset) -> u64
fw_info_addr(view, offset) ==
    LET s == symbol_by_address(view, offset)
    IN  IF s.tag = "None" THEN offset ELSE s.val.address

\* format!("{n:X}")
UpperHexDigits == <<"0", "1", "2", "3", "4", "5", "6", "7",
                    "8", "9", "A", "B", "C", "D", "E", "F">>

LowerHexDigits == <<"0", "1", "2", "3", "4", "5", "6", "7",
                    "8", "9", "a", "b", "c", "d", "e", "f">>

\* Faulty variant, for comparison: format!("{n:x}")
RECURSIVE LowerHex(_)
LowerHex(n) ==
    IF n < 16 THEN <<LowerHexDigits[n + 1]>>
    ELSE Append(LowerHex(n \div 16), LowerHexDigits[(n % 16) + 1])

RECURSIVE UpperHex(_)
UpperHex(n) ==
    IF n < 16 THEN <<UpperHexDigits[n + 1]>>
    ELSE Append(UpperHex(n \div 16), UpperHexDigits[(n % 16) + 1])

\* The (fw_name, address) pair of read_fw_info_of_sym.
NameAndAddress(view, offset) ==
    LET s == symbol_by_address(view, offset)
    IN  IF s.tag = "None"
        THEN [fw_name |-> <<"d", "a", "t", "a", "_">> \o UpperHex(offset),
              address |-> offset]
        ELSE [fw_name |-> sym_to_fw_name(s.val), address |-> s.val.address]

\* read_fw_info_of_sym(&self, view, offset) -> Option<(String, u64, u32)>
read_fw_info_of_sym(checks, view, ty, offset) ==
    The({ The({ IF r.tag # "Some" THEN r
                ELSE Some([name |-> na.fw_name, fw_off |-> r.val.fw_off,
                           fw_size |-> r.val.fw_size]) :
                r \in {read_fw_info(checks, view, ty, na.address)} }) :
          na \in {NameAndAddress(view, offset)} })

\* AddressCommand::valid(&self, view, addr) -> bool.  The sum is evaluated
\* only when the first conjunct holds.
valid(checks, view, ty, addr) ==
    The({ The({ IF r.tag = "Panic" THEN Panic
                ELSE IF r.tag = "None" THEN Some(FALSE)
                ELSE IF ~offset_valid(view, r.val.fw_off) THEN Some(FALSE)
                ELSE LET e == AddU64(checks, r.val.fw_off, r.val.fw_size)
                     IN  IF e.tag = "Panic" THEN Panic
                         ELSE Some(offset_valid(view, e.val)) :
                r \in {read_fw_info(checks, view, ty, b)} }) :
          b \in {fw_info_addr(view, addr)} })

\* ------------------------------------------------------------- the inputs
\* Mapped layouts: contiguous; with a hole; with a second segment at the top
\* of the address space; cut inside the GC header.
SegLayouts ==
    { {<<0, 127>>},
      {<<0, 95>>, <<100, 127>>},
      {<<0, 95>>, <<AddrSpace - 8, AddrSpace - 1>>},
      {<<0, 60>>} }

HeaderBases == {26}

\* The (data offset, data size) pairs a header holds: inside the image, empty,
\* across the hole, up to and past the end of the low segment, and in the top
\* segment up to and past the end of the address space.
HdrFields ==
    { <<72, 4>>, <<72, 0>>, <<88, 15>>, <<124, 4>>, <<124, 15>>,
      <<AddrSpace - 4, 4>>, <<AddrSpace - 4, 15>> }

SymbolNames ==
    { <<"f", "w">>, <<"_", "f", "w">>, <<"_", "_", "f">>, <<"xFF", "_">> }

Endiannesses == {"LittleEndian", "BigEndian"}
AddressSizes == {U32Bytes, U64Bytes}

\* Views without symbols, over every layout and header; and views with one
\* symbol covering the header base and the next address.
Views ==
    { [endianness |-> e, address_size |-> w, segs |-> g,
       hdr |-> [ty |-> t, base |-> b, off |-> f[1], size |-> f[2]],
       syms |-> {}] :
        e \in Endiannesses, w \in AddressSizes, g \in SegLayouts,
        t \in FirmwareType, b \in HeaderBases, f \in HdrFields }
    \cup
    { [endianness |-> e, address_size |-> w, segs |-> {<<0, 127>>},
       hdr |-> [ty |-> t, base |-> b, off |-> 72, size |-> 4],
       syms |-> {[name |-> n, address |-> b, extent |-> 2]}] :
        e \in Endiannesses, w \in AddressSizes, t \in FirmwareType,
        b \in HeaderBases, n \in SymbolNames }

\* Addresses the host offers the commands at: a header base (a symbol's
\* start), the next address (inside the symbol), an address away from both,
\* and one at the top of the address space.
RawAddrs == {26, 27, 90, AddrSpace - 2}

SavePaths == {"out.bin"}
OsErrors == {"ENOSPC", "EACCES"}

\* ---------------------------------------------------------------- state
VARIABLES
    overflow_checks,  \* the build's overflow checks (debug) or none (release)
    view,             \* the host's binary view
    pc,               \* where the host and the invocation of `action` are
    self_ty,          \* self.0 of the command invoked
    addr,             \* the address the command was invoked at
    info,             \* Some((name, fw_off, fw_size)) once decoded
    data,             \* the bytes read by `action`
    base,             \* the header base `action` decoded at
    fwReads,          \* the read_vec calls of line 102: <<offset, len>>
    prompts,          \* the save prompts shown: [title, ext, default_name]
    writes,           \* the fs::write calls: [path, bytes, result]
    msgs,             \* the message boxes shown: [title, text, icon]
    validCall,        \* the host's last `valid` query
    stale             \* the image changed since that query

vars == <<overflow_checks, view, pc, self_ty, addr, info, data, base,
          fwReads, prompts, writes, msgs, validCall, stale>>

locals == <<self_ty, addr, info, data, base>>
shown == <<fwReads, prompts, writes, msgs>>

Init ==
    /\ overflow_checks \in BOOLEAN
    /\ view \in Views
    /\ pc = "Idle"
    /\ self_ty = "Gc"
    /\ addr = 0
    /\ info = None
    /\ data = <<>>
    /\ base = None
    /\ fwReads = <<>>
    /\ prompts = <<>>
    /\ writes = <<>>
    /\ msgs = <<>>
    /\ validCall = None
    /\ stale = FALSE

\* The host asks the command whether it applies at an address (lines 90-96).
\* A panic in the callback aborts the process.
HostValid(ty, a) ==
    LET b == fw_info_addr(view, a)
        r == valid(overflow_checks, view, ty, a)
    IN  /\ pc = "Idle"
        /\ validCall' = Some([ty |-> ty, addr |-> a, base |-> b,
                              hdr |-> read_fw_info(overflow_checks, view, ty, b),
                              result |-> r])
        /\ stale' = FALSE
        /\ pc' = IF r.tag = "Panic" THEN "ValidPanicked" ELSE "Idle"
        /\ UNCHANGED <<overflow_checks, view, locals, shown>>

\* The host's image changes after the query (a segment is added or removed).
ImageChanged(g) ==
    /\ pc = "Idle"
    /\ validCall.tag = "Some"
    /\ g # view.segs
    /\ view' = [view EXCEPT !.segs = g]
    /\ stale' = TRUE
    /\ UNCHANGED <<overflow_checks, pc, locals, shown, validCall>>

\* The host runs the command where `valid` returned true: `action` is entered.
StartAction ==
    /\ pc = "Idle"
    /\ validCall.tag = "Some"
    /\ validCall.val.result = Some(TRUE)
    /\ pc' = "Resolving"
    /\ self_ty' = validCall.val.ty
    /\ addr' = validCall.val.addr
    /\ UNCHANGED <<overflow_checks, view, info, data, base, shown, validCall, stale>>

\* Line 99: read_fw_info_of_sym, and the early return on None.
Resolve ==
    /\ pc = "Resolving"
    /\ \E r \in {read_fw_info_of_sym(overflow_checks, view, self_ty, addr)} :
           /\ base' = Some(NameAndAddress(view, addr).address)
           /\ info' = IF r.tag = "Some" THEN r ELSE None
           /\ pc' = CASE r.tag = "Some" -> "Validated"
                      [] r.tag = "None" -> "Rejected"
                      [] OTHER -> "Crashed"
    /\ UNCHANGED <<overflow_checks, view, self_ty, addr, data, shown,
                   validCall, stale>>

\* Lines 102-104: read_vec of the firmware bytes, then the save prompt.
ReadAndPrompt ==
    /\ pc = "Validated"
    /\ data' = read_vec(view, info.val.fw_off, info.val.fw_size)
    /\ fwReads' = Append(fwReads, <<info.val.fw_off, info.val.fw_size>>)
    /\ prompts' = Append(prompts,
                         [title |-> <<"S", "a", "v", "e", " ">> \o info.val.name,
                          ext |-> "bin",
                          default_name |-> info.val.name \o <<".", "b", "i", "n">>])
    /\ pc' = "UserChoosingPath"
    /\ UNCHANGED <<overflow_checks, view, self_ty, addr, info, base, writes,
                   msgs, validCall, stale>>

\* Faulty variant, for comparison: a cancelled prompt is reported with an error box.
UserCancel_notify ==
    /\ pc = "UserChoosingPath"
    /\ pc' = "Aborted"
    /\ msgs' = Append(msgs, [title |-> "Whoops",
                             text |-> <<"File was not saved: ", "cancelled">>,
                             icon |-> "ErrorIcon"])
    /\ UNCHANGED <<overflow_checks, view, locals, fwReads, prompts, writes,
                   validCall, stale>>

\* Lines 105-107: the user dismisses the prompt.
UserCancel ==
    /\ pc = "UserChoosingPath"
    /\ pc' = "Aborted"
    /\ UNCHANGED <<overflow_checks, view, locals, shown, validCall, stale>>

\* Faulty variant, for comparison: a failed write is tried once more before the message box.
UserSave_retry(path, result) ==
    LET w == [path |-> path, bytes |-> data, result |-> result]
    IN  /\ pc = "UserChoosingPath"
        /\ IF result = "Ok"
           THEN /\ pc' = "Written"
                /\ writes' = Append(writes, w)
                /\ msgs' = msgs
           ELSE /\ pc' = "WriteFailed"
                /\ writes' = writes \o <<w, w>>
                /\ msgs' = Append(msgs, [title |-> "Whoops",
                                         text |-> <<"File was not saved: ", result>>,
                                         icon |-> "ErrorIcon"])
        /\ UNCHANGED <<overflow_checks, view, locals, fwReads, prompts,
                       validCall, stale>>

\* Lines 103-116: the user picks a path; fs::write; on Err the message box.
UserSave(path, result) ==
    /\ pc = "UserChoosingPath"
    /\ writes' = Append(writes, [path |-> path, bytes |-> data, result |-> result])
    /\ IF result = "Ok"
       THEN /\ pc' = "Written"
            /\ msgs' = msgs
       ELSE /\ pc' = "WriteFailed"
            /\ msgs' = Append(msgs, [title |-> "Whoops",
                                     text |-> <<"File was not saved: ", result>>,
                                     icon |-> "ErrorIcon"])
    /\ UNCHANGED <<overflow_checks, view, locals, fwReads, prompts, validCall,
                   stale>>

\* `action` returns: its locals are dropped.
Leave ==
    /\ pc' = "Idle"
    /\ self_ty' = "Gc"
    /\ addr' = 0
    /\ info' = None
    /\ data' = <<>>
    /\ base' = None
    /\ fwReads' = <<>>
    /\ prompts' = <<>>
    /\ writes' = <<>>
    /\ msgs' = <<>>
    /\ validCall' = None
    /\ stale' = FALSE
    /\ UNCHANGED <<overflow_checks, view>>

\* Faulty variant, for comparison: after the message box the save prompt is shown again.
DismissMessage_reprompt ==
    /\ pc = "WriteFailed"
    /\ pc' = "UserChoosingPath"
    /\ writes' = <<>>
    /\ msgs' = <<>>
    /\ UNCHANGED <<overflow_checks, view, locals, fwReads, prompts, validCall,
                   stale>>

\* The user closes the message box; `action` returns (line 117).
DismissMessage ==
    /\ pc = "WriteFailed"
    /\ Leave

\* The returns of lines 100, 106 and 109.
Return ==
    /\ pc \in {"Rejected", "Aborted", "Written"}
    /\ Leave

Step ==
    \/ Resolve
    \/ ReadAndPrompt
    \/ UserCancel
    \/ \E p \in SavePaths, r \in {"Ok"} \cup OsErrors : UserSave(p, r)
    \/ DismissMessage
    \/ Return

Next ==
    \/ \E ty \in FirmwareType, a \in RawAddrs : HostValid(ty, a)
    \/ \E g \in SegLayouts : ImageChanged(g)
    \/ StartAction
    \/ Step

Spec == Init /\ [][Next]_vars

\* The code runs to completion and the user answers each modal prompt.
FairSpec == Spec /\ WF_vars(Step)

\* =============================================================== claims

\* Every byte of [off, off + size) is a mapped address.
RangeMapped(v, off, size) ==
    \A i \in 0 .. (size - 1) : off + i < AddrSpace /\ offset_valid(v, off + i)

\* The highest mapped address.
MappedLimit(v) ==
    CHOOSE m \in {s[2] : s \in v.segs} : \A s \in v.segs : s[2] <= m

\* The decoded range [off, off + size) leaves the mapped bounds: its end wraps
\* around the address space, or lies beyond the mapped limit.
ExceedsBounds(v, off, size) ==
    off + size > AddrSpace \/ off + size > MappedLimit(v) + 1

\* The value of the n bytes at address a, in the view's byte order.
RECURSIVE FieldValue(_, _, _, _)
FieldValue(v, a, n, i) ==
    IF i = n THEN 0
    ELSE ByteAt(v, a + i)
           * ByteBase ^ (IF v.endianness = "LittleEndian" THEN i ELSE n - 1 - i)
         + FieldValue(v, a, n, i + 1)

\* The symbols whose range holds address a.
Enclosing(v, a) == {s \in v.syms : s.address <= a /\ a < s.address + s.extent}

\* The host's last query of `valid`, answered on the image as it is now.
Queried == validCall.tag = "Some" /\ ~stale

\* ---- C1
\* C1: in a view whose address width is 4, when the 4 bytes of the offset
\* field are available at the header base, read_fw_off returns them decoded
\* in the view's byte order and zero-extended to 64 bits; it reports no
\* decode failure.
C1_ReadOffset32 ==
    LET c == validCall.val
        a == c.base + off_field_off(c.ty)
        r == read_fw_off(overflow_checks, view, c.ty, c.base)
    IN  ( /\ Queried
          /\ view.address_size = U32Bytes
          /\ a + U32Bytes <= AddrSpace
          /\ RangeMapped(view, a, U32Bytes) )
        => r.tag = "Some" /\ r.val = FieldValue(view, a, U32Bytes, 0)

\* ---- C2
\* C2: when the header decoded at the resolved base describes a range that
\* leaves the mapped bounds (its end wraps around, or lies beyond the mapped
\* limit), `valid` returns false.
C2_OutOfRangeIsInvalid ==
    LET c == validCall.val
    IN  ( /\ Queried
          /\ c.hdr.tag = "Some"
          /\ ExceedsBounds(view, c.hdr.val.fw_off, c.hdr.val.fw_size) )
        => c.result.tag = "Some" /\ c.result.val = FALSE

\* ---- C3
\* C3: where `valid` returned true, the whole range read by `action` at the
\* same address is mapped, also when the mapped region is not contiguous.
C3_ValidImpliesRangeMapped ==
    ( /\ Queried
      /\ validCall.val.result.tag = "Some"
      /\ validCall.val.result.val = TRUE )
    => \A i \in 1 .. Len(fwReads) : RangeMapped(view, fwReads[i][1], fwReads[i][2])

\* ---- C4
\* C4: `action` reads the firmware bytes only after the bounds of the decoded
\* range were validated: for a header whose range is not mapped it reads
\* nothing, prompts for nothing and writes nothing.
C4_NoReadOutOfRange ==
    ( /\ info.tag = "Some"
      /\ ~RangeMapped(view, info.val.fw_off, info.val.fw_size) )
    => fwReads = <<>> /\ prompts = <<>> /\ writes = <<>>

\* ---- C5
\* C5: the bytes `action` writes are exactly data_size bytes, the image's
\* content at [data_offset, data_offset + data_size), for the header decoded
\* at the resolved base.
C5_WrittenBytesAreTheRange ==
    \A i \in 1 .. Len(writes) :
        LET h == read_fw_info(overflow_checks, view, self_ty, base.val).val
        IN  writes[i].result = "Ok" =>
            /\ info.val.fw_off = h.fw_off
            /\ info.val.fw_size = h.fw_size
            /\ Len(writes[i].bytes) = h.fw_size
            /\ \A k \in 1 .. Len(writes[i].bytes) :
                   writes[i].bytes[k] = ByteAt(view, h.fw_off + k - 1)

\* ---- C6
\* The text of a symbol's full name.
FullName(sym) == to_string_lossy(sym.name)

\* n is the text `full` without its first character when that is "_", and
\* the text itself otherwise.
OneUnderscoreStripped(full, n) ==
    IF full # <<>> /\ full[1] = "_"
    THEN n = SubSeq(full, 2, Len(full))
    ELSE n = full

\* The prompts shown carry the display name.
PromptsCarry(n) ==
    \A i \in 1 .. Len(prompts) :
        /\ prompts[i].title = <<"S", "a", "v", "e", " ">> \o n
        /\ prompts[i].default_name = n \o <<".", "b", "i", "n">>
        /\ prompts[i].ext = "bin"

\* C6: at a raw address inside a symbol, `valid` and `action` both decode the
\* header at the symbol's canonical address, and the display name of the
\* save prompt is the symbol's full name less exactly one leading "_".
C6_SymbolBaseAndName ==
    /\ Queried =>
         \A s \in Enclosing(view, validCall.val.addr) :
            /\ validCall.val.base = s.address
            /\ validCall.val.hdr
                 = read_fw_info(overflow_checks, view, validCall.val.ty, s.address)
    /\ base.tag = "Some" =>
         \A s \in Enclosing(view, addr) :
            /\ base.val = s.address
            /\ info.tag = "Some" =>
                 /\ OneUnderscoreStripped(FullName(s), info.val.name)
                 /\ PromptsCarry(info.val.name)
                 /\ LET h == read_fw_info(overflow_checks, view, self_ty, s.address)
                    IN  /\ h.tag = "Some"
                        /\ info.val.fw_off = h.val.fw_off
                        /\ info.val.fw_size = h.val.fw_size

\* A prompt is up for a symbol named "__f", the command having been invoked
\* inside the symbol, one address after its start.
C6_Witness ==
    /\ pc = "UserChoosingPath"
    /\ Queried
    /\ \E s \in Enclosing(view, addr) :
          /\ s.name = <<"_", "_", "f">>
          /\ addr = s.address + 1
          /\ base.val = s.address
    /\ info.val.name = <<"_", "f">>
    /\ Len(prompts) = 1

\* ---- C7
HexDigitValue(c) ==
    CASE c = "0" -> 0  [] c = "1" -> 1  [] c = "2" -> 2  [] c = "3" -> 3
      [] c = "4" -> 4  [] c = "5" -> 5  [] c = "6" -> 6  [] c = "7" -> 7
      [] c = "8" -> 8  [] c = "9" -> 9  [] c = "A" -> 10 [] c = "B" -> 11
      [] c = "C" -> 12 [] c = "D" -> 13 [] c = "E" -> 14 [] c = "F" -> 15
      [] OTHER -> -1

RECURSIVE HexValue(_)
HexValue(h) ==
    IF h = <<>> THEN 0
    ELSE 16 * HexValue(SubSeq(h, 1, Len(h) - 1)) + HexDigitValue(h[Len(h)])

\* h is the natural uppercase hexadecimal form of n.
IsUpperHexOf(h, n) ==
    /\ Len(h) >= 1
    /\ \A i \in 1 .. Len(h) : HexDigitValue(h[i]) >= 0
    /\ Len(h) > 1 => h[1] # "0"
    /\ HexValue(h) = n

\* C7: at a raw address no symbol holds, `valid` and `action` decode the
\* header at the raw address itself, and the display name is "data_" followed
\* by the uppercase hexadecimal form of the raw address.
C7_FallbackBaseAndName ==
    /\ (Queried /\ Enclosing(view, validCall.val.addr) = {}) =>
         /\ validCall.val.base = validCall.val.addr
         /\ validCall.val.hdr
              = read_fw_info(overflow_checks, view, validCall.val.ty,
                             validCall.val.addr)
    /\ (base.tag = "Some" /\ Enclosing(view, addr) = {}) =>
         /\ base.val = addr
         /\ info.tag = "Some" =>
              /\ Len(info.val.name) > 5
              /\ SubSeq(info.val.name, 1, 5) = <<"d", "a", "t", "a", "_">>
              /\ IsUpperHexOf(SubSeq(info.val.name, 6, Len(info.val.name)), addr)
              /\ PromptsCarry(info.val.name)

\* A prompt is up for an address without a symbol whose hexadecimal form has
\* a letter digit.
C7_Witness ==
    /\ pc = "UserChoosingPath"
    /\ Enclosing(view, addr) = {}
    /\ addr = 90
    /\ info.val.name = <<"d", "a", "t", "a", "_", "5", "A">>
    /\ Len(prompts) = 1

\* ---- C8
\* The invocation of `action` is under way.
InAction == pc \in {"Resolving", "Validated", "Rejected", "UserChoosingPath",
                    "Aborted", "Written", "WriteFailed", "Crashed"}

\* The steps of the per-invocation state machine.
MachineEdges ==
    { <<"Idle", "Resolving">>,
      <<"Resolving", "Validated">>, <<"Resolving", "Rejected">>,
      <<"Validated", "UserChoosingPath">>,
      <<"UserChoosingPath", "Aborted">>,
      <<"UserChoosingPath", "Written">>, <<"UserChoosingPath", "WriteFailed">>,
      <<"Rejected", "Idle">>, <<"Aborted", "Idle">>,
      <<"Written", "Idle">>, <<"WriteFailed", "Idle">> }

\* Outside `action` the host only queries `valid` or changes its image.
HostEdges == { <<"Idle", "Idle">>, <<"Idle", "ValidPanicked">> }

\* A step moves pc along an edge.
MachineStep == (<<pc, pc'>> \in (MachineEdges \cup HostEdges))

\* What an invocation holds at each point, and nothing outside of one.
MachineOrder ==
    /\ prompts # <<>> => info.tag = "Some" /\ fwReads # <<>>
    /\ writes # <<>> => prompts # <<>>
    /\ Len(prompts) <= 1
    /\ ~InAction =>
         /\ info = None /\ data = <<>> /\ base = None
         /\ fwReads = <<>> /\ prompts = <<>> /\ writes = <<>> /\ msgs = <<>>

\* C8: every invocation of `action` walks Idle -> Resolving -> (Validated |
\* Rejected) -> (UserChoosingPath -> Aborted | Written | WriteFailed) in that
\* order, the prompt after the header was resolved and the write after the
\* prompt; every path comes back to Idle once the user has answered the
\* prompts; nothing of an invocation is left at Idle.
C8_StateMachine ==
    /\ []MachineOrder
    /\ [][MachineStep]_vars
    /\ (InAction ~> (pc = "Idle"))

\* `action` found no header at the address (the image changed after the
\* query) and is about to return.
C8_Witness == pc = "Rejected" /\ stale /\ info = None /\ prompts = <<>>

\* ---- C9
\* C9: when the user cancels the save prompt, after the header was decoded and
\* the bytes were read, `action` ends with no file written and no message.
C9_CancelIsSilent ==
    pc = "Aborted" =>
        /\ info.tag = "Some"
        /\ Len(fwReads) = 1
        /\ Len(prompts) = 1
        /\ writes = <<>>
        /\ msgs = <<>>

\* The user cancelled after a non-empty range was read.
C9_Witness == pc = "Aborted" /\ Len(data) = 4 /\ info.val.fw_size = 4

\* ---- C10
\* C10: a failed write shows exactly one error message, carrying the OS error;
\* the write is not tried again; no message is shown on a decode failure, a
\* cancellation or a successful write.
C10_WriteFailureReported ==
    /\ Len(writes) <= 1
    /\ Len(msgs) <= 1
    /\ pc = "WriteFailed" =>
         /\ Len(writes) = 1
         /\ writes[1].result \in OsErrors
         /\ Len(msgs) = 1
    /\ msgs # <<>> =>
         /\ pc = "WriteFailed"
         /\ msgs[1].icon = "ErrorIcon"
         /\ msgs[1].text = <<"File was not saved: ", writes[1].result>>
    /\ pc \in {"Rejected", "Aborted", "Written"} => msgs = <<>>
    /\ pc = "Written" => Len(writes) = 1 /\ writes[1].result = "Ok"

\* The write failed for lack of permission and the message box is up.
C10_Witness ==
    /\ pc = "WriteFailed"
    /\ writes[1].result = "EACCES"
    /\ msgs[1].text[2] = "EACCES"

====
